---- MODULE Spec2Model ----
(***************************************************************************)
(* napari-locpix: the SMLM point-cloud datastructure (class item of         *)
(* _datastruc.py), its histogram render, pixel indexer, mask join and       *)
(* parquet save/load, as a state machine.                                   *)
(*                                                                          *)
(* Numbers.  Coordinates are integers; bin widths and bin edges are exact   *)
(* rationals <<n, d>> in lowest terms (d > 0), so that equal values are     *)
(* equal tuples.  The IEEE rounding of the Python floats is not modelled.   *)
(***************************************************************************)
EXTENDS Integers, Sequences, FiniteSets, TLC

VARIABLES items, heap, files, last, widget

vars == <<items, heap, files, last, widget>>

(***************************************************************************)
(* Bounds of the model.                                                     *)
(***************************************************************************)
\* in SpecRender the bin counts per axis range over 1..MaxBins
MaxBins == 2
\* in SpecJoin the bin counts and the mask's pixels per axis range over 1..MaxGrid
MaxGrid == 3
\* in SpecRender the x coordinates of the generated tables range over 0..MaxCoord
MaxCoord == 2
\* the widget loads files while its column menus hold at most MaxMenu entries
MaxMenu == 7

(***************************************************************************)
(* Python values.                                                           *)
(***************************************************************************)
\* a value that may be None is a sequence of at most one element
None == <<>>

Some(v) == <<v>>

TheVal(o) == o[1]

Range(s) == {s[k] : k \in DOMAIN s}

\* the empty dict {}
EmptyDict == <<>>

RECURSIVE GCD(_, _)
GCD(a, b) == IF b = 0 THEN a ELSE GCD(b, a % b)

\* the float n/d (d > 0, n >= 0 or n < 0), in lowest terms
Rat(n, d) ==
    LET g == GCD(IF n < 0 THEN -n ELSE n, d)
    IN  IF n = 0 THEN <<0, 1>> ELSE <<n \div g, d \div g>>

RatOfInt(k) == <<k, 1>>

\* r * (a / b), a >= 0, b > 0
RatMul(r, a, b) == Rat(r[1] * a, r[2] * b)

\* k + r * i
RatAddInt(k, r, i) == Rat(k * r[2] + r[1] * i, r[2])

\* r <= k   and   r = k   for an integer k
RatLeqInt(r, k) == r[1] <= k * r[2]

RatEqInt(r, k) == r[1] = k * r[2]

RatLess(r, s) == r[1] * s[2] < s[1] * r[2]

RECURSIVE SumSeq(_)
SumSeq(s) == IF s = <<>> THEN 0 ELSE Head(s) + SumSeq(Tail(s))

\* the multiset of the elements of s
BagOfSeq(s) == [e \in Range(s) |-> Cardinality({k \in DOMAIN s : s[k] = e})]

(***************************************************************************)
(* The dataframe self.df: its column names in order, its rows (each row a   *)
(* function from the column names to integers), and the dtype of the pixel  *)
(* columns: f64 holds the pixel columns that are still Float64 (the cast of *)
(* lines 278-279 did not reach them) and nan those whose every value is NaN *)
(* (0.0 / 0.0).  A Float64 pixel column keeps the floor of its quotient in  *)
(* the model.                                                               *)
(***************************************************************************)
PixelCols == <<"x_pixel", "y_pixel", "z_pixel">>

HasCol(df, c) == c \in Range(df.cols)

\* polars DataFrame.drop(c) of a column that is present
DropCol(df, c) ==
    [cols |-> SelectSeq(df.cols, LAMBDA k : k # c),
     rows |-> [n \in DOMAIN df.rows |->
                 [k \in (DOMAIN df.rows[n]) \ {c} |-> df.rows[n][k]]],
     f64  |-> df.f64 \ {c},
     nan  |-> df.nan \ {c}]

\* drop every column of cs that is present (lines 261-263)
RECURSIVE DropPresent(_, _)
DropPresent(df, cs) ==
    IF cs = <<>> THEN df
    ELSE DropPresent(IF HasCol(df, Head(cs)) THEN DropCol(df, Head(cs)) ELSE df,
                     Tail(cs))

\* df.max()[c][0] and df.min()[c][0] of a non-empty frame
ColMax(df, c) ==
    CHOOSE m \in {r[c] : r \in Range(df.rows)} :
        \A r \in Range(df.rows) : r[c] <= m

ColMin(df, c) ==
    CHOOSE m \in {r[c] : r \in Range(df.rows)} :
        \A r \in Range(df.rows) : m <= r[c]

(***************************************************************************)
(* Histogram Binner: the pure parts of coord_2_histo.                       *)
(***************************************************************************)
\* the factor of lines 171-172, as the fraction InflateNum / InflateDen
InflateNum == 1001

InflateDen == 1000

\* BinSize without the inflation of lines 171-172
BinSizeNotInflated(mx, mn, bins) == Rat(mx - mn, bins)

\* (max - min) / bins * 1.001, bins > 0 (lines 168-172)
BinSize(mx, mn, bins) == RatMul(Rat(mx - mn, bins), InflateNum, InflateDen)

\* [min + size * i for i in range(bins + 1)]; Python's edges[i] is Edges[i + 1]
EdgesOf(mn, size, bins) == [k \in 1 .. bins + 1 |-> RatAddInt(mn, size, k - 1)]

\* np.searchsorted(edges, v, side='right'): the number of edges <= v
SearchSortedRight(edges, v) ==
    Cardinality({k \in DOMAIN edges : RatLeqInt(edges[k], v)})

\* the bin of v along one axis in np.histogramdd, 0-based; a value outside
\* 0 .. Len(edges) - 2 is an outlier, which histogramdd does not count
BinIndex(edges, v) ==
    LET c == SearchSortedRight(edges, v)
    IN  (IF RatEqInt(edges[Len(edges)], v) THEN c - 1 ELSE c) - 1

\* ChannelRows without the filter on the channel
ChannelRowsUnfiltered(df, chan) == df.rows

\* the rows np.histogramdd is given for channel chan (line 197)
ChannelRows(df, chan) == SelectSeq(df.rows, LAMBDA r : r.channel = chan)

\* np.histogramdd(sample, bins=(x_edges, y_edges)) as an array [x][y]
HistogramDD(sample, edges) ==
    [a \in 0 .. Len(edges[1]) - 2 |->
       [b \in 0 .. Len(edges[2]) - 2 |->
          Cardinality({n \in DOMAIN sample :
                          /\ BinIndex(edges[1], sample[n].x) = a
                          /\ BinIndex(edges[2], sample[n].y) = b})]]

\* np.digitize(v, bins=edges): i with edges[i-1] <= v < edges[i]
Digitize(v, edges) == SearchSortedRight(edges, v)

(***************************************************************************)
(* Pixel Indexer: _coord_2_pixel.                                           *)
(***************************************************************************)
\* PixelOf counting the pixels from 1, as np.digitize counts the bins
PixelOfOneBased(q, mn, width) == ((q - mn) * width[2]) \div width[1] + 1

\* PixelOf rounding to the nearest integer instead of truncating
PixelOfRounded(q, mn, width) ==
    (2 * (q - mn) * width[2] + width[1]) \div (2 * width[1])

\* int((q - min) / width) for width > 0 (lines 269-279)
PixelOf(q, mn, width) == ((q - mn) * width[2]) \div width[1]

\* self.df after lines 251-279 and the error the strict cast raises, if any:
\* a zero bin width makes every quotient 0.0 / 0.0 = NaN, which the strict
\* cast to int rejects, leaving the Float64 columns in self.df
Coord2PixelDf(df, bin_sizes) ==
    LET x_min  == ColMin(df, "x")
        y_min  == ColMin(df, "y")
        xw     == bin_sizes[1]
        yw     == bin_sizes[2]
        base   == DropPresent(df, PixelCols)
        xpix(r) == IF xw[1] = 0 THEN 0 ELSE PixelOf(r.x, x_min, xw)
        ypix(r) == IF yw[1] = 0 THEN 0 ELSE PixelOf(r.y, y_min, yw)
        sel    == [cols |-> base.cols \o <<"x_pixel", "y_pixel">>,
                   rows |-> [n \in DOMAIN base.rows |->
                               base.rows[n] @@ ("x_pixel" :> xpix(base.rows[n]))
                                            @@ ("y_pixel" :> ypix(base.rows[n]))],
                   f64  |-> {"x_pixel", "y_pixel"},
                   nan  |-> (IF xw[1] = 0 THEN {"x_pixel"} ELSE {})
                              \cup (IF yw[1] = 0 THEN {"y_pixel"} ELSE {})]
    IN  IF "x_pixel" \in sel.nan
          THEN [df |-> sel, err |-> "ComputeError"]
        ELSE IF "y_pixel" \in sel.nan
          THEN [df |-> [sel EXCEPT !.f64 = {"y_pixel"}], err |-> "ComputeError"]
        ELSE [df |-> [sel EXCEPT !.f64 = {}], err |-> "ok"]

(***************************************************************************)
(* The class item.  Its histo attribute is a reference into the heap: the   *)
(* default argument histo={} of __init__ (line 71) is one dict object,      *)
(* created when the function is defined.                                    *)
(***************************************************************************)
HistoDefault == "item.__init__.histo"

NoItem == [exists |-> FALSE]

\* LabelCheck comparing no lengths
LabelCheckOff(channels, channel_label) ==
    IF channel_label = None THEN "TypeError" ELSE "ok"

\* lines 91-97 for a list of channels: len(channel_label) raises for None, and
\* more channels than labels is a ValueError
LabelCheck(channels, channel_label) ==
    IF channel_label = None THEN "TypeError"
    ELSE IF Len(channels) > Len(TheVal(channel_label)) THEN "ValueError"
    ELSE "ok"

\* item.__init__ (lines 64-97): the attributes it assigns and the error it
\* raises after assigning them
ItemInit(name, df, dim, channels, channel_label, bin_sizes, gt_label_map) ==
    [item |-> [exists        |-> TRUE,
               name          |-> name,
               df            |-> df,
               histo         |-> HistoDefault,
               histo_edges   |-> None,
               histo_mask    |-> EmptyDict,
               dim           |-> dim,
               bin_sizes     |-> bin_sizes,
               channels      |-> channels,
               channel_label |-> channel_label,
               gt_label_map  |-> gt_label_map],
     err  |-> LabelCheck(channels, channel_label)]

\* the dict self.histo after the loop of lines 196-204
HistoAssign(dict, df, channels, edges) ==
    [c \in (DOMAIN dict) \cup Range(channels) |->
        IF c \in Range(channels)
          THEN HistogramDD(ChannelRows(df, c), edges)
          ELSE dict[c]]

\* item.coord_2_histo (lines 122-221) on item it with histo dict `dict`.
\* The unpacking of histo_size (lines 146, 152) wants dim values; a dim of 3
\* reads x_max at line 168, which only the dim-2 branch assigns; a negative
\* bin count makes range(bins + 1) empty, and np.histogramdd at lines 202-204
\* indexes the last of the empty edges after lines 184-189 have assigned
\* bin_sizes and histo_edges
Coord2Histo(it, dict, histo_size) ==
    LET unchanged(e) == [item |-> it, dict |-> dict, err |-> e]
        size(mx, mn, bins) ==
            IF bins > 0 THEN BinSize(mx, mn, bins)
            ELSE <<- BinSize(mx, mn, - bins)[1], BinSize(mx, mn, - bins)[2]>>
    IN  IF Len(histo_size) # it.dim THEN unchanged("ValueError")
        ELSE IF it.dim = 3 THEN unchanged("UnboundLocalError")
        ELSE IF it.df.rows = <<>> THEN unchanged("TypeError")
        ELSE IF histo_size[1] = 0 \/ histo_size[2] = 0
          THEN unchanged("ZeroDivisionError")
        ELSE
          LET x_min == ColMin(it.df, "x")
              y_min == ColMin(it.df, "y")
              x_bin_size == size(ColMax(it.df, "x"), x_min, histo_size[1])
              y_bin_size == size(ColMax(it.df, "y"), y_min, histo_size[2])
              edges == <<EdgesOf(x_min, x_bin_size, histo_size[1]),
                         EdgesOf(y_min, y_bin_size, histo_size[2])>>
              sizes == <<x_bin_size, y_bin_size>>
              pix   == Coord2PixelDf(it.df, sizes)
              set   == [it EXCEPT !.bin_sizes = Some(sizes),
                                  !.histo_edges = Some(edges)]
          IN  IF histo_size[1] < 0 \/ histo_size[2] < 0
                THEN [item |-> set, dict |-> dict, err |-> "IndexError"]
              ELSE [item |-> [set EXCEPT !.df = pix.df],
                    dict |-> HistoAssign(dict, it.df, it.channels, edges),
                    err  |-> pix.err]

(***************************************************************************)
(* Mask Reconciler: _manual_seg_pixel_2_coord.  A mask is an array          *)
(* [0 .. s0-1 -> [0 .. s1-1 -> label]]; the default histo_mask is {}.       *)
(***************************************************************************)
\* histo_mask.shape
MaskShape(M) ==
    <<Cardinality(DOMAIN M), IF DOMAIN M = {} THEN 0 ELSE Cardinality(DOMAIN M[0])>>

\* np.ravel of a 2D array with n0 rows and n1 columns, 0-based
Ravel(arr, n0, n1) == [k \in 0 .. n0 * n1 - 1 |-> arr[k \div n1][k % n1]]

\* np.meshgrid(range(n0), range(n1)): two arrays of shape (n1, n0), the first
\* varying along its columns with range(n0), the second along its rows
MeshGrid(n0, n1) ==
    <<[a \in 0 .. n1 - 1 |-> [b \in 0 .. n0 - 1 |-> b]],
      [a \in 0 .. n1 - 1 |-> [b \in 0 .. n0 - 1 |-> a]]>>

\* mask_df of lines 330-346: its rows, 0-based
MaskDf(M) ==
    LET shape == MaskShape(M)
        mesh_grid == MeshGrid(shape[1], shape[2])
        x_pixel == Ravel(mesh_grid[2], shape[2], shape[1])
        y_pixel == Ravel(mesh_grid[1], shape[2], shape[1])
        label   == Ravel(M, shape[1], shape[2])
    IN  [k \in 0 .. shape[1] * shape[2] - 1 |->
           [x_pixel |-> x_pixel[k], y_pixel |-> y_pixel[k], gt_label |-> label[k]]]

\* the rows of mask_df a row of self.df joins with
Matches(mask_df, r) ==
    {k \in DOMAIN mask_df : /\ mask_df[k].x_pixel = r.x_pixel
                            /\ mask_df[k].y_pixel = r.y_pixel}

\* self.df.join(mask_df, how="inner", on=["x_pixel", "y_pixel"]): every row
\* once per matching row of mask_df (mask_df has no two rows with one key)
InnerJoin(df, mask_df) ==
    LET kept == SelectSeq(df.rows, LAMBDA r : Matches(mask_df, r) # {})
    IN  [df EXCEPT
           !.cols = df.cols \o <<"gt_label">>,
           !.rows = [n \in DOMAIN kept |->
                       kept[n] @@ ("gt_label" :>
                          mask_df[CHOOSE k \in Matches(mask_df, kept[n]) : TRUE].gt_label)]]

\* ManualSeg taking the dim == 2 branch whatever dim is
ManualSegAnyDim(it) ==
    IF MaskShape(it.histo_mask)[1] = 0
      THEN [item |-> it, err |-> "AttributeError"]
    ELSE
      LET dropped == IF HasCol(it.df, "gt_label") THEN DropCol(it.df, "gt_label")
                     ELSE it.df
      IN  IF ~ (HasCol(dropped, "x_pixel") /\ HasCol(dropped, "y_pixel"))
            THEN [item |-> [it EXCEPT !.df = dropped], err |-> "NotFoundError"]
          ELSE IF dropped.f64 # {}
            THEN [item |-> [it EXCEPT !.df = dropped], err |-> "ComputeError"]
          ELSE [item |-> [it EXCEPT !.df = InnerJoin(dropped, MaskDf(it.histo_mask))],
                err  |-> "ok"]

\* item._manual_seg_pixel_2_coord (lines 321-363), histo_mask already set
ManualSeg(it) ==
    IF it.dim = 3 THEN [item |-> it, err |-> "ok"]
    ELSE IF MaskShape(it.histo_mask)[1] = 0
      THEN [item |-> it, err |-> "AttributeError"]
    ELSE
      LET dropped == IF HasCol(it.df, "gt_label") THEN DropCol(it.df, "gt_label")
                     ELSE it.df
      IN  IF ~ (HasCol(dropped, "x_pixel") /\ HasCol(dropped, "y_pixel"))
            THEN [item |-> [it EXCEPT !.df = dropped], err |-> "NotFoundError"]
          ELSE IF dropped.f64 # {}
            THEN [item |-> [it EXCEPT !.df = dropped], err |-> "ComputeError"]
          ELSE [item |-> [it EXCEPT !.df = InnerJoin(dropped, MaskDf(it.histo_mask))],
                err  |-> "ok"]

(***************************************************************************)
(* Point-Cloud Serializer: save_to_parquet and load_from_parquet.           *)
(***************************************************************************)
\* str(v), and ast.literal_eval / int of such a text
PyStr(v) == [repr |-> v]

LiteralEval(t) == t.repr

\* json.dumps of None or of a dict: the keys of a JSON object are strings
JsonKey(k) == [str |-> k]

JsonDumps(o) ==
    IF o = None THEN None
    ELSE Some([ks \in {JsonKey(k) : k \in DOMAIN TheVal(o)} |-> TheVal(o)[ks.str]])

\* DecodeLabelMap keeping no entry of the decoded object
DecodeLabelMapEmpty(t) == IF t = None THEN None ELSE Some(<<>>)

\* lines 507-514: json.loads, then int(key) for every key unless it is None
DecodeLabelMap(t) ==
    IF t = None THEN None
    ELSE Some([k \in {ks.str : ks \in DOMAIN TheVal(t)} |-> TheVal(t)[JsonKey(k)]])

\* SaveDf dropping the pixel columns whatever drop_pixel_col says
SaveDfDropsPixels(it, drop_zero_label, drop_pixel_col) ==
    LET df1 == DropPresent(it.df, PixelCols)
    IN  IF drop_zero_label /\ ~ HasCol(df1, "gt_label")
          THEN [df |-> df1, err |-> "NotFoundError"]
        ELSE [df  |-> IF drop_zero_label
                        THEN [df1 EXCEPT !.rows =
                                SelectSeq(df1.rows, LAMBDA r : r.gt_label # 0)]
                        ELSE df1,
              err |-> "ok"]

\* save_df of lines 445-456 and the error polars raises for a missing column
SaveDf(it, drop_zero_label, drop_pixel_col) ==
    LET pix == IF it.dim = 3 THEN <<"x_pixel", "y_pixel", "z_pixel">>
               ELSE <<"x_pixel", "y_pixel">>
        df1 == IF drop_pixel_col THEN DropPresent(it.df, pix) ELSE it.df
    IN  IF drop_pixel_col /\ \E c \in Range(pix) : ~ HasCol(it.df, c)
          THEN [df |-> it.df, err |-> "NotFoundError"]
        ELSE IF drop_zero_label /\ ~ HasCol(df1, "gt_label")
          THEN [df |-> df1, err |-> "NotFoundError"]
        ELSE [df  |-> IF drop_zero_label
                        THEN [df1 EXCEPT !.rows =
                                SelectSeq(df1.rows, LAMBDA r : r.gt_label # 0)]
                        ELSE df1,
              err |-> "ok"]

\* meta_data of lines 465-473; the arrow table of a polars frame carries no
\* schema metadata of its own, so merged_metadata is meta_data
MetaData(it, gt_label_map) ==
    [name          |-> it.name,
     dim           |-> PyStr(it.dim),
     channels      |-> PyStr(it.channels),
     channel_label |-> PyStr(it.channel_label),
     gt_label_map  |-> JsonDumps(gt_label_map),
     bin_sizes     |-> PyStr(it.bin_sizes)]

NoFile == [exists |-> FALSE]

\* MayWrite without the check of lines 480-483
MayWriteUnchecked(exists, overwrite) == TRUE

\* lines 480-483: whether the write of line 484 is reached
MayWrite(exists, overwrite) == ~ (exists /\ ~ overwrite)

\* the arguments of self.__init__ in lines 506-534
LoadFromParquet(f) ==
    ItemInit(f.meta.name,
             f.table,
             LiteralEval(f.meta.dim),
             LiteralEval(f.meta.channels),
             LiteralEval(f.meta.channel_label),
             LiteralEval(f.meta.bin_sizes),
             DecodeLabelMap(f.meta.gt_label_map))

\* lines 408-413: the inner join of save_df with the frame of chan_label and
\* its row count 0, 1, ... named channel
JoinChanLabel(df, channel_label) ==
    LET kept == SelectSeq(df.rows,
                          LAMBDA r : r.channel \in 0 .. Len(channel_label) - 1)
    IN  [df EXCEPT
           !.cols = df.cols \o <<"chan_label">>,
           !.rows = [n \in DOMAIN kept |->
                       kept[n] @@ ("chan_label" :> channel_label[kept[n].channel + 1])]]

\* save_df of save_df_to_csv (lines 388-413) and the error polars raises for
\* a missing column
SaveDfCsv(it, drop_zero_label, drop_pixel_col, save_chan_label) ==
    LET s == SaveDf(it, drop_zero_label, drop_pixel_col)
    IN  IF s.err # "ok" \/ ~ save_chan_label THEN s
        ELSE [df  |-> JoinChanLabel(s.df, TheVal(it.channel_label)),
              err |-> "ok"]

(***************************************************************************)
(* Coordinate Table Loader: file_to_datastruc.  A raw file is               *)
(* [base, ext, cols, rows]: its name without extension, its extension, its  *)
(* column names and its rows (functions from the column names).             *)
(***************************************************************************)
RECURSIVE SortedSeq(_)
SortedSeq(S) ==
    IF S = {} THEN <<>>
    ELSE LET m == CHOOSE v \in S : \A w \in S : v <= w
         IN  <<m>> \o SortedSeq(S \ {m})

\* df.rename(mapping) after the projection read of lines 615-621
ReadRenamed(raw, columns, mapping) ==
    [cols |-> [n \in DOMAIN columns |-> mapping[columns[n]]],
     rows |-> [n \in DOMAIN raw.rows |->
                 [c \in {mapping[k] : k \in Range(columns)} |->
                     raw.rows[n][CHOOSE k \in Range(columns) : mapping[k] = c]]],
     f64  |-> {},
     nan  |-> {}]

\* DimCheck accepting a z column with dim = 2
DimCheckNoPlanar(dim, z_col) ==
    (dim # 2 /\ dim # 3) \/ (dim = 3 /\ z_col = None)

\* lines 590-596: whether "Check dimensions correctly specified" raises
DimCheck(dim, z_col) ==
    \/ dim # 2 /\ dim # 3
    \/ dim = 2 /\ z_col # None
    \/ dim = 3 /\ z_col = None

\* file_to_datastruc (lines 553-672) with frame_col=None
FileToDatastruc(raw, file_type, dim, channel_col, x_col, y_col, z_col, channel_label) ==
    LET fail(e) == [item |-> NoItem, err |-> e]
        wanted  == <<channel_col, x_col, y_col>>
                     \o (IF dim = 3 THEN <<TheVal(z_col)>> ELSE <<>>)
        columns == SelectSeq(raw.cols, LAMBDA c : c \in Range(wanted))
        mapping == (channel_col :> "channel") @@ (x_col :> "x") @@ (y_col :> "y")
                     @@ (IF dim = 3 THEN TheVal(z_col) :> "z" ELSE <<>>)
    IN  IF DimCheck(dim, z_col) THEN fail("ValueError")
        ELSE IF file_type # "csv" /\ file_type # "parquet" THEN fail("ValueError")
        ELSE IF file_type # raw.ext THEN fail("ComputeError")
        ELSE IF \E c \in Range(wanted) : c \notin Range(raw.cols)
          THEN fail("NotFoundError")
        ELSE
          LET df == ReadRenamed(raw, columns, mapping)
              channels == SortedSeq({r.channel : r \in Range(df.rows)})
              made == ItemInit(Some(raw.base), df, dim, channels, channel_label,
                               None, Some(EmptyDict))
          IN  IF made.err = "ok" THEN made ELSE fail(made.err)

(***************************************************************************)
(* The widget (DatastrucWidget of _widget.py) and its viewer.  form: the    *)
(* index of render_form; bound: the slots connected to the Render button of *)
(* the raw form; images: the channels of the image layers; labels: the      *)
(* transposed data of the layer named Labels; label_widget: the texts of    *)
(* the label map rows; chan_text: the texts of the four channel label       *)
(* fields; source and rendered: the file self.datastruc was loaded from by  *)
(* _load_annot_data and whether it was rendered since (history).  The bin   *)
(* count fields and the drop-zero check box are read by the handlers as     *)
(* inputs.  self.datastruc is the object WidgetItem.  A slot of bound is     *)
(* the file (path and file type) its lambda holds; menus: the entries and   *)
(* the current index (-1 when empty) of the                                 *)
(* channel, frame, x and y column menus; raw_loaded: the file of the last   *)
(* _load_raw_data (history).                                                *)
(***************************************************************************)
WidgetItem == "A"

\* a QComboBox without entries
NoMenu == [items |-> <<>>, current |-> -1]

NoWidget ==
    [form |-> 0, bound |-> None, images |-> <<>>, labels |-> None,
     label_widget |-> None,
     chan_text |-> <<"unk", "unk", "unk", "unk">>,
     source |-> None, rendered |-> FALSE,
     menus |-> [channel |-> NoMenu, frame |-> NoMenu, x |-> NoMenu, y |-> NoMenu],
     raw_loaded |-> None]

\* QComboBox.addItems(texts): the entries are appended; an empty menu makes
\* its first entry current
AddItems(menu, texts) ==
    [items   |-> menu.items \o texts,
     current |-> IF menu.items = <<>> /\ texts # <<>> THEN 0 ELSE menu.current]

\* the column names of the model that start with the text findText is given
Prefixed(prefix) ==
    CASE prefix = "chan" -> {"chan", "channel"}
      [] prefix = "fram" -> {"frame"}
      [] prefix = "x"    -> {"x", "x_nm", "x_pixel"}
      [] prefix = "y"    -> {"y", "y_nm", "y_pixel"}

\* findText(prefix, MatchStartsWith): the index of the first entry that
\* starts with prefix, or -1
FindText(menu, prefix) ==
    LET hits == {k \in DOMAIN menu.items : menu.items[k] \in Prefixed(prefix)}
    IN  IF hits = {} THEN -1
        ELSE (CHOOSE k \in hits : \A j \in hits : k <= j) - 1

\* "index = menu.findText(prefix); if index != -1: menu.setCurrentIndex(index)"
SelectPrefixed(menu, prefix) ==
    IF FindText(menu, prefix) = -1 THEN menu
    ELSE [menu EXCEPT !.current = FindText(menu, prefix)]

\* QComboBox.currentText()
CurrentText(menu) ==
    IF menu.current = -1 THEN "" ELSE menu.items[menu.current + 1]

\* the menus after lines 292-319 of _load_raw_data, and 373-400 of
\* _load_annot_data, for a file with these columns
MenusFilled(menus, columns) ==
    [channel |-> SelectPrefixed(AddItems(menus.channel, columns), "chan"),
     frame   |-> SelectPrefixed(AddItems(AddItems(menus.frame, <<"None">>), columns),
                                "fram"),
     x       |-> SelectPrefixed(AddItems(menus.x, columns), "x"),
     y       |-> SelectPrefixed(AddItems(menus.y, columns), "y")]

\* Disconnected leaving every slot connected
DisconnectedNone(slots) == slots

\* render_button.clicked.disconnect() inside try/except (lines 285-288): every
\* slot is disconnected; without a slot it raises, which is swallowed
Disconnected(slots) == <<>>

\* render_button.clicked.connect(lambda: self._render_button(path, file_type))
Connected(slots, raw) == Append(slots, raw)

\* the rows 0 and 1 that _wrap_labels gives the label map (lines 216-220)
LabelRows == (0 :> "") @@ (1 :> "")

\* render_seg (lines 536-550): the arrays histo[x_pixels, y_pixels] = labels
\* can give; NumPy leaves open which of the values assigned to one element
\* of an advanced assignment remains
RenderSegs(df) ==
    LET w == ColMax(df, "x_pixel") + 1
        h == ColMax(df, "y_pixel") + 1
        at(a, b) == {r.gt_label : r \in {q \in Range(df.rows) :
                                           q.x_pixel = a /\ q.y_pixel = b}}
        vals == {0} \cup {r.gt_label : r \in Range(df.rows)}
    IN  {R \in [0 .. w - 1 -> [0 .. h - 1 -> vals]] :
           \A a \in 0 .. w - 1, b \in 0 .. h - 1 :
              R[a][b] \in (IF at(a, b) = {} THEN {0} ELSE at(a, b))}

\* "if not gt_label_map" of line 585
Truthy(gt_label_map) ==
    gt_label_map # None /\ TheVal(gt_label_map) # EmptyDict

\* lines 470-477: the dict read off the rows 0 .. rowCount - 1 of the label
\* map; a row without widgets raises AttributeError
LabelMapOf(label_widget) ==
    LET top == CHOOSE k \in DOMAIN label_widget : \A j \in DOMAIN label_widget : j <= k
    IN  IF DOMAIN label_widget = 0 .. top
          THEN [map |-> label_widget, err |-> "ok"]
          ELSE [map |-> EmptyDict, err |-> "AttributeError"]

\* the try block of _write_csv (lines 419-423) and _write_parquet (lines
\* 461-481): KeyError when no layer is named Labels, caught
Reconcile(it, labels, label_widget, with_map) ==
    IF labels = None THEN [item |-> it, gt_label_map |-> EmptyDict, err |-> "ok"]
    ELSE LET r == ManualSeg([it EXCEPT !.histo_mask = TheVal(labels)])
             m == LabelMapOf(TheVal(label_widget))
         IN  IF r.err # "ok" \/ ~ with_map
               THEN [item |-> r.item, gt_label_map |-> EmptyDict, err |-> r.err]
             ELSE [item |-> r.item, gt_label_map |-> m.map, err |-> m.err]

(***************************************************************************)
(* State.  items: the item objects by identity; heap: the dict objects that *)
(* items share by reference; files: the parquet files by path; last: the    *)
(* call that produced this state, its arguments that no attribute keeps,     *)
(* whether its path existed before it, and the error it raised; widget: the *)
(* DatastrucWidget and the layers of its viewer.                            *)
(***************************************************************************)
Items == {"A", "B"}

Paths == {"out.parquet"}

\* the annotated file the widget writes first, and the csv export
AnnotPaths == {"in.parquet"}

CsvPaths == {"out.csv"}

AllPaths == Paths \cup AnnotPaths \cup CsvPaths

NoCall == [op |-> "none", item |-> "-", err |-> "ok", path |-> "-",
           overwrite |-> FALSE, existed |-> FALSE, histo_size |-> <<0, 0>>,
           input |-> "-", file_type |-> "-", dim |-> 0, z_col |-> None,
           channel_label |-> None, seg |-> None, renders |-> 0]

Call(op, i, err) == [NoCall EXCEPT !.op = op, !.item = i, !.err = err]

Init ==
    /\ items = [i \in Items |-> NoItem]
    /\ heap  = [h \in {HistoDefault} |-> EmptyDict]
    /\ files = [p \in AllPaths |-> NoFile]
    /\ last  = NoCall
    /\ widget = NoWidget

\* the histogram dict an item's histo attribute refers to
HistoOf(i) == heap[items[i].histo]

\* datastruc = file_to_datastruc(...) creating object i
Import(i, raw, file_type, dim, z_col, channel_label) ==
    /\ items[i] = NoItem
    /\ LET r == FileToDatastruc(raw, file_type, dim, "chan", "x_nm", "y_nm",
                                z_col, channel_label)
       IN  /\ items' = [items EXCEPT ![i] = r.item]
           /\ last'  = [Call("import", i, r.err) EXCEPT
                           !.input = raw.base, !.file_type = file_type,
                           !.dim = dim, !.z_col = z_col,
                           !.channel_label = channel_label]
    /\ UNCHANGED <<heap, files, widget>>

\* items[i].coord_2_histo(histo_size)
Render(i, histo_size) ==
    /\ items[i].exists
    /\ LET r == Coord2Histo(items[i], HistoOf(i), histo_size)
       IN  /\ items' = [items EXCEPT ![i] = r.item]
           /\ heap'  = [heap EXCEPT ![items[i].histo] = r.dict]
           /\ last'  = [Call("render", i, r.err) EXCEPT !.histo_size = histo_size]
    /\ UNCHANGED <<files, widget>>

\* items[i].histo_mask = M; items[i]._manual_seg_pixel_2_coord()
MaskJoin(i, M) ==
    /\ items[i].exists
    /\ LET r == ManualSeg([items[i] EXCEPT !.histo_mask = M])
       IN  /\ items' = [items EXCEPT ![i] = r.item]
           /\ last'  = Call("join", i, r.err)
    /\ UNCHANGED <<heap, files, widget>>

\* items[i].save_to_parquet(p, drop_zero_label, drop_pixel_col, gt_label_map,
\* overwrite).  A file records, beside its table and metadata, the item as it
\* was saved, the drop options, the gt_label_map argument and the file the
\* widget had loaded and rendered (history, read by no operation).
Save(i, p, drop_zero_label, drop_pixel_col, gt_label_map, overwrite) ==
    /\ items[i].exists
    /\ LET s   == SaveDf(items[i], drop_zero_label, drop_pixel_col)
           err == IF s.err # "ok" THEN s.err
                  ELSE IF MayWrite(files[p].exists, overwrite) THEN "ok"
                  ELSE "ValueError"
       IN  /\ files' = IF s.err = "ok" /\ MayWrite(files[p].exists, overwrite)
                         THEN [files EXCEPT ![p] =
                                 [exists |-> TRUE,
                                  table  |-> s.df,
                                  meta   |-> MetaData(items[i], gt_label_map),
                                  saved  |-> items[i],
                                  drop_zero_label |-> drop_zero_label,
                                  drop_pixel_col  |-> drop_pixel_col,
                                  gt_label_map |-> gt_label_map,
                                  origin |-> None]]
                         ELSE files
           /\ last' = [Call("save", i, err) EXCEPT !.path = p,
                          !.overwrite = overwrite, !.existed = files[p].exists]
    /\ UNCHANGED <<items, heap, widget>>

\* items[i].load_from_parquet(p) on an existing file; a new object i is first
\* made by item(None, None, None, None, None)
Load(i, p) ==
    /\ files[p].exists
    /\ LET r == LoadFromParquet(files[p])
       IN  /\ items' = [items EXCEPT ![i] = r.item]
           /\ last'  = [Call("load", i, r.err) EXCEPT !.path = p]
    /\ UNCHANGED <<heap, files, widget>>

\* items[i].save_df_to_csv(p, drop_zero_label, drop_pixel_col,
\* save_chan_label); write_csv replaces an existing file
SaveCsv(i, p, drop_zero_label, drop_pixel_col, save_chan_label) ==
    /\ items[i].exists
    /\ LET s == SaveDfCsv(items[i], drop_zero_label, drop_pixel_col, save_chan_label)
       IN  /\ files' = IF s.err = "ok"
                         THEN [files EXCEPT ![p] =
                                 [exists |-> TRUE,
                                  table  |-> s.df,
                                  saved  |-> items[i],
                                  drop_zero_label |-> drop_zero_label,
                                  drop_pixel_col  |-> drop_pixel_col,
                                  save_chan_label |-> save_chan_label]]
                         ELSE files
           /\ last' = [Call("save_csv", i, s.err) EXCEPT !.path = p,
                          !.overwrite = TRUE, !.existed = files[p].exists]
    /\ UNCHANGED <<items, heap, widget>>

\* items[i].render_seg() (lines 536-550); last.seg is the array returned.
\* A missing column is a polars error, np.max of no rows a ValueError, and
\* pixel columns that are still Float64 cannot index the array
RenderSeg(i) ==
    /\ items[i].exists
    /\ LET df == items[i].df
           fail(e) == last' = Call("render_seg", i, e)
       IN  IF \E c \in {"gt_label", "x_pixel", "y_pixel"} : ~ HasCol(df, c)
             THEN fail("NotFoundError")
           ELSE IF df.rows = <<>> THEN fail("ValueError")
           ELSE IF df.f64 # {} THEN fail("IndexError")
           ELSE \E seg \in RenderSegs(df) :
                   last' = [Call("render_seg", i, "ok") EXCEPT !.seg = Some(seg)]
    /\ UNCHANGED <<items, heap, files, widget>>

\* _load_raw_data(path) (lines 264-319): shows the raw render form and
\* connects its Render button to the file
LoadRawData(raw) ==
    /\ Len(widget.menus.channel.items) + Len(raw.cols) <= MaxMenu
    /\ widget' = [widget EXCEPT
                    !.form = 0,
                    !.bound = Connected(Disconnected(widget.bound), raw),
                    !.menus = MenusFilled(widget.menus, raw.cols),
                    !.raw_loaded = Some(raw)]
    /\ last'   = [Call("load_raw", WidgetItem, "ok") EXCEPT
                    !.input = raw.base, !.file_type = raw.ext]
    /\ UNCHANGED <<items, heap, files>>

\* the number of leading channels of the object that chan_2_label (line 105)
\* has a label for
Labelled(it) ==
    LET has(k) == it.channels[k] + 1 \in DOMAIN TheVal(it.channel_label)
    IN  Cardinality({k \in DOMAIN it.channels : \A j \in 1 .. k : has(j)})

\* the error of lines 614-642 of _render_histo, after coord_2_histo: with one
\* channel line 636 reads the name napari, which the module imports only
\* under TYPE_CHECKING (lines 30-31); with several, the name of an image is
\* built with chan_2_label, which raises for a channel without a label
ShownErr(it) ==
    IF Len(it.channels) = 1 THEN "NameError"
    ELSE IF Labelled(it) < Len(it.channels) THEN "IndexError"
    ELSE "ok"

\* the state of the viewer after _render_histo (lines 604-652) has called
\* coord_2_histo: the layers are cleared, then one image is added per
\* channel, named with the channel and its label, until an error
Shown(w, it) ==
    [w EXCEPT !.images =
                 IF Len(it.channels) = 1 THEN <<>>
                 ELSE [k \in 1 .. Labelled(it) |->
                         [chan  |-> it.channels[k],
                          label |-> TheVal(it.channel_label)[it.channels[k] + 1]]],
              !.labels = None]

\* _render_button(path, file_type) (lines 502-547), the slot one load
\* connected, run on the state st = [item, heap, widget, ...]: the columns are
\* the current texts of the menus (the frame menu's "None" is no column)
RenderSlot(st, raw, histo_size) ==
    LET menus == st.widget.menus
        made  == FileToDatastruc(raw, raw.ext, 2,
                                 CurrentText(menus.channel), CurrentText(menus.x),
                                 CurrentText(menus.y), None,
                                 Some(st.widget.chan_text))
        off   == [st.widget EXCEPT !.source = None, !.rendered = FALSE]
        ran   == [st EXCEPT !.renders = st.renders + 1, !.input = raw.base,
                            !.file_type = raw.ext]
    IN  IF CurrentText(menus.frame) # "None" /\ CurrentText(menus.frame) \notin Range(raw.cols)
          THEN [ran EXCEPT !.item = NoItem, !.widget = off, !.err = "NotFoundError"]
        ELSE IF made.err # "ok"
          THEN [ran EXCEPT !.item = NoItem, !.widget = off, !.err = made.err]
        ELSE
          LET r == Coord2Histo(made.item, st.heap[made.item.histo], histo_size)
          IN  [ran EXCEPT !.item   = r.item,
                          !.heap   = [st.heap EXCEPT ![made.item.histo] = r.dict],
                          !.widget = IF r.err = "ok" THEN Shown(off, r.item) ELSE off,
                          !.err    = IF r.err # "ok" THEN r.err ELSE ShownErr(r.item)]

\* the clicked signal calls the connected slots in the order they were connected
RECURSIVE Clicked(_, _, _)
Clicked(st, slots, histo_size) ==
    IF slots = <<>> THEN st
    ELSE Clicked(RenderSlot(st, Head(slots), histo_size), Tail(slots), histo_size)

\* a click on the Render button of the raw form with the bin counts of the two
\* fields
RenderButton(histo_size) ==
    /\ widget.form = 0 /\ widget.bound # <<>>
    /\ LET st == Clicked([item |-> items[WidgetItem], heap |-> heap, widget |-> widget,
                          err |-> "ok", renders |-> 0, input |-> "-",
                          file_type |-> "-"],
                         widget.bound, histo_size)
       IN  /\ items'  = [items EXCEPT ![WidgetItem] = st.item]
           /\ heap'   = st.heap
           /\ widget' = st.widget
           /\ last'   = [Call("render_button", WidgetItem, st.err) EXCEPT
                           !.histo_size = histo_size, !.renders = st.renders,
                           !.input = st.input, !.file_type = st.file_type]
    /\ UNCHANGED files

\* _load_annot_data(path) (lines 332-400) of an existing parquet file
LoadAnnotData(p) ==
    /\ files[p].exists
    /\ Len(widget.menus.channel.items) + Len(files[p].table.cols) <= MaxMenu
    /\ LET r   == LoadFromParquet(files[p])
           cl  == r.item.channel_label
           err == IF r.err # "ok" THEN r.err
                  ELSE IF cl = None THEN "TypeError"
                  ELSE IF Len(TheVal(cl)) < 4 THEN "IndexError"
                  ELSE "ok"
           set == [widget EXCEPT !.source = None, !.rendered = FALSE]
       IN  /\ items'  = [items EXCEPT ![WidgetItem] = r.item]
           /\ widget' =
                 IF err = "ok"
                   THEN [set EXCEPT !.chan_text = SubSeq(TheVal(cl), 1, 4),
                                    !.form = 1, !.source = Some(p),
                                    !.menus = MenusFilled(widget.menus,
                                                          files[p].table.cols)]
                 ELSE IF err = "IndexError"
                   THEN [set EXCEPT !.chan_text =
                           [k \in 1 .. 4 |-> IF k <= Len(TheVal(cl))
                                               THEN TheVal(cl)[k]
                                               ELSE widget.chan_text[k]]]
                 ELSE set
           /\ last'   = [Call("load_annot", WidgetItem, err) EXCEPT !.path = p]
    /\ UNCHANGED <<heap, files>>

\* a click on the Render button of the annotated form: _render_button_annot
\* (lines 549-602) with the bin counts of the two fields
RenderButtonAnnot(histo_size) ==
    /\ widget.form = 1 /\ items[WidgetItem].exists
    /\ LET it == items[WidgetItem]
           r  == Coord2Histo(it, heap[it.histo], histo_size)
           gt == r.item.gt_label_map
           done(w, e) ==
               /\ widget' = w
               /\ last'   = [Call("render_annot", WidgetItem, e)
                               EXCEPT !.histo_size = histo_size]
       IN  IF it.dim = 3
             THEN /\ done(widget, "ValueError") /\ UNCHANGED <<items, heap>>
           ELSE
             /\ items' = [items EXCEPT ![WidgetItem] = r.item]
             /\ heap'  = [heap EXCEPT ![it.histo] = r.dict]
             /\ IF r.err # "ok" THEN done(widget, r.err)
                ELSE IF ShownErr(r.item) # "ok"
                  THEN done(Shown(widget, r.item), ShownErr(r.item))
                ELSE IF ~ Truthy(gt)
                  THEN done([Shown(widget, r.item) EXCEPT !.rendered = TRUE], "ok")
                ELSE IF ~ HasCol(r.item.df, "gt_label")
                  THEN done(Shown(widget, r.item), "NotFoundError")
                ELSE
                  \E seg \in RenderSegs(r.item.df) :
                     LET map == TheVal(gt)
                         w   == [Shown(widget, r.item) EXCEPT
                                   !.labels = Some(seg),
                                   !.label_widget = Some(LabelRows)]
                     IN  IF 0 \notin DOMAIN map THEN done(w, "KeyError")
                         ELSE IF 1 \notin DOMAIN map
                           THEN done([w EXCEPT !.label_widget =
                                        Some((0 :> map[0]) @@ (1 :> ""))], "KeyError")
                         ELSE done([w EXCEPT !.label_widget = Some(map),
                                             !.rendered = TRUE], "ok")
    /\ UNCHANGED files

\* the user adds the layer Labels over the rendered images and paints M on
\* it; the insertion calls _wrap_labels (lines 204-235)
AddLabels(M) ==
    /\ widget.images # <<>> /\ widget.labels = None
    /\ items[WidgetItem].exists /\ items[WidgetItem].histo_edges # None
    /\ MaskShape(M) = <<Len(TheVal(items[WidgetItem].histo_edges)[1]) - 1,
                        Len(TheVal(items[WidgetItem].histo_edges)[2]) - 1>>
    /\ widget' = [widget EXCEPT !.labels = Some(M),
                                !.label_widget = Some(LabelRows)]
    /\ last'   = Call("add_labels", WidgetItem, "ok")
    /\ UNCHANGED <<items, heap, files>>

\* _write_parquet(path) (lines 458-500) with the state of the drop-zero box
WriteParquet(p, drop_zero_label) ==
    /\ items[WidgetItem].exists
    /\ LET rec == Reconcile(items[WidgetItem], widget.labels, widget.label_widget, TRUE)
           it  == [rec.item EXCEPT !.channel_label = Some(widget.chan_text)]
           s   == SaveDf(it, drop_zero_label, TRUE)
           err == IF rec.err # "ok" THEN rec.err
                  ELSE IF s.err # "ok" THEN s.err
                  ELSE IF MayWrite(files[p].exists, FALSE) THEN "ok"
                  ELSE "ValueError"
       IN  /\ items' = [items EXCEPT ![WidgetItem] =
                           IF rec.err # "ok" THEN rec.item ELSE it]
           /\ files' = IF err = "ok"
                         THEN [files EXCEPT ![p] =
                                 [exists |-> TRUE,
                                  table  |-> s.df,
                                  meta   |-> MetaData(it, Some(rec.gt_label_map)),
                                  saved  |-> it,
                                  drop_zero_label |-> drop_zero_label,
                                  drop_pixel_col  |-> TRUE,
                                  gt_label_map |-> Some(rec.gt_label_map),
                                  origin |-> IF widget.rendered THEN widget.source
                                             ELSE None]]
                         ELSE files
           /\ last' = [Call("write_parquet", WidgetItem, err) EXCEPT !.path = p,
                          !.existed = files[p].exists]
    /\ UNCHANGED <<heap, widget>>

\* _write_csv(path) (lines 416-442) with the state of the drop-zero box
WriteCsv(p, drop_zero_label) ==
    /\ items[WidgetItem].exists
    /\ LET rec == Reconcile(items[WidgetItem], widget.labels, widget.label_widget, FALSE)
           it  == [rec.item EXCEPT !.channel_label = Some(widget.chan_text)]
           s   == SaveDfCsv(it, drop_zero_label, TRUE, TRUE)
           err == IF rec.err # "ok" THEN rec.err ELSE s.err
       IN  /\ items' = [items EXCEPT ![WidgetItem] =
                           IF rec.err # "ok" THEN rec.item ELSE it]
           /\ files' = IF err = "ok"
                         THEN [files EXCEPT ![p] =
                                 [exists |-> TRUE,
                                  table  |-> s.df,
                                  saved  |-> it,
                                  drop_zero_label |-> drop_zero_label,
                                  drop_pixel_col  |-> TRUE,
                                  save_chan_label |-> TRUE]]
                         ELSE files
           /\ last' = [Call("write_csv", WidgetItem, err) EXCEPT !.path = p,
                          !.overwrite = TRUE, !.existed = files[p].exists]
    /\ UNCHANGED <<heap, widget>>

(***************************************************************************)
(* Inputs.                                                                  *)
(***************************************************************************)
\* a raw localisation file with columns chan, x_nm, y_nm from <<chan, x, y>>
RawFile(base, ext, rows) ==
    [base |-> base, ext |-> ext, cols |-> <<"chan", "x_nm", "y_nm">>,
     rows |-> [n \in DOMAIN rows |->
                 [chan |-> rows[n][1], x_nm |-> rows[n][2], y_nm |-> rows[n][3]]]]

\* two channels; the scenario table of the specification
RawCells == RawFile("cells", "csv", << <<0, 0, 0>>, <<0, 10, 10>>, <<1, 5, 5>> >>)

\* one channel, every localisation on the line x = 5
RawLine == RawFile("line", "parquet", << <<0, 5, 0>>, <<0, 5, 10>> >>)

\* one channel, a repeated localisation
RawSpots == RawFile("spots", "parquet",
                    << <<0, 0, 0>>, <<0, 0, 0>>, <<0, 7, 3>>, <<0, 10, 10>> >>)

RawFiles == {RawCells, RawLine, RawSpots}

\* channel values 0 and 2: two distinct channels, not 0 and 1
RawGap == RawFile("gap", "csv", << <<0, 0, 0>>, <<2, 10, 10>>, <<0, 4, 6>> >>)

\* a file whose columns are named channel, x and y; two channels
RawPlain ==
    [base |-> "plain", ext |-> "parquet",
     cols |-> <<"channel", "x", "y">>,
     rows |-> << [channel |-> 0, x |-> 0, y |-> 0],
                 [channel |-> 1, x |-> 8, y |-> 2],
                 [channel |-> 0, x |-> 10, y |-> 10] >>]

\* a 3D file: columns chan, x_nm, y_nm, z_nm, two channels
RawVolume ==
    [base |-> "volume", ext |-> "csv",
     cols |-> <<"chan", "x_nm", "y_nm", "z_nm">>,
     rows |-> << [chan |-> 0, x_nm |-> 0, y_nm |-> 0, z_nm |-> 0],
                 [chan |-> 1, x_nm |-> 4, y_nm |-> 8, z_nm |-> 2],
                 [chan |-> 0, x_nm |-> 10, y_nm |-> 10, z_nm |-> 6] >>]

FileTypes == {"csv", "parquet", "txt"}

Dims == {1, 2, 3}

ZCols == {None, Some("z_nm")}

ChannelLabels == {None, Some(<<"egfr">>), Some(<<"egfr", "ereg">>)}

HistoSizes == (1 .. MaxBins) \X (1 .. MaxBins)

JoinSizes == (1 .. MaxGrid) \X (1 .. MaxGrid)

\* the mask whose pixel (a, b) holds the label a * s1 + b: label 0 at (0, 0),
\* every other pixel its own label
MaskIndex(s0, s1) == [a \in 0 .. s0 - 1 |-> [b \in 0 .. s1 - 1 |-> a * s1 + b]]

\* the mask of a Labels layer nothing was drawn on
MaskZero(s0, s1) == [a \in 0 .. s0 - 1 |-> [b \in 0 .. s1 - 1 |-> 0]]

\* the mask with label 1 on every pixel but the last, (s0 - 1, s1 - 1), which
\* holds 0
MaskCorner(s0, s1) ==
    [a \in 0 .. s0 - 1 |-> [b \in 0 .. s1 - 1 |->
        IF a = s0 - 1 /\ b = s1 - 1 THEN 0 ELSE 1]]

\* a mask of a 3D grid, shape (s0, s1, s2), label 1 on the plane a = 0
MaskVolume(s0, s1, s2) ==
    [a \in 0 .. s0 - 1 |-> [b \in 0 .. s1 - 1 |-> [c \in 0 .. s2 - 1 |->
        IF a = 0 THEN 1 ELSE 0]]]

Masks ==
    {MaskIndex(s0, s1) : s0 \in 1 .. MaxGrid, s1 \in 1 .. MaxGrid}
      \cup {MaskZero(s0, s1) : s0 \in 1 .. MaxGrid, s1 \in 1 .. MaxGrid}

LabelMaps == {None, Some(EmptyDict), Some((0 :> "background") @@ (1 :> "cell"))}

\* the rows of the generated tables: channel 0 or 1, x in 0 .. MaxCoord, y 0 or 1
RowValues == (0 .. 1) \X (0 .. MaxCoord) \X (0 .. 1)

RowLeq(r, q) ==
    \/ r[1] < q[1]
    \/ r[1] = q[1] /\ r[2] < q[2]
    \/ r[1] = q[1] /\ r[2] = q[2] /\ r[3] <= q[3]

\* every table of one to three rows, one row order each
Tables ==
    {<<r>> : r \in RowValues}
      \cup {<<r, q>> : r, q \in RowValues}
      \cup {<<r, q, t>> : r, q, t \in RowValues}

SortedTables ==
    {t \in Tables : \A n \in 1 .. Len(t) - 1 : RowLeq(t[n], t[n + 1])}

GeneratedRaws == {RawFile("generated", "csv", t) : t \in SortedTables}

TwoLabels == Some(<<"egfr", "ereg">>)

(***************************************************************************)
(* Spec: one session on object A, which is imported, rendered and joined    *)
(* with a mask before it is first saved, then saved any number of times;    *)
(* object B is loaded from the saved file.                                  *)
(***************************************************************************)
Unsaved == \A p \in Paths : ~ files[p].exists

SessionSizes == {<<2, 2>>, <<1, 2>>, <<0, 2>>}

SessionMasks == {MaskIndex(2, 2)}

Next ==
    \/ /\ items["A"] = NoItem
       /\ \E raw \in RawFiles, ft \in FileTypes, dim \in Dims,
             z \in ZCols, cl \in ChannelLabels : Import("A", raw, ft, dim, z, cl)
    \/ \E hs \in SessionSizes : Unsaved /\ Render("A", hs)
    \/ \E M \in SessionMasks : Unsaved /\ MaskJoin("A", M)
    \/ \E p \in Paths, dz \in BOOLEAN, dp \in BOOLEAN,
          gt \in LabelMaps, ow \in BOOLEAN : Save("A", p, dz, dp, gt, ow)
    \/ \E p \in Paths : Load("B", p)

Spec == Init /\ [][Next]_vars

(***************************************************************************)
(* SpecJoin: object A imported from the raw files, rendered with every bin  *)
(* count up to MaxGrid and joined with every mask up to MaxGrid pixels per  *)
(* axis, in any order.                                                      *)
(***************************************************************************)
NextJoin ==
    \/ /\ items["A"] = NoItem
       /\ \E raw \in RawFiles, ft \in FileTypes, dim \in Dims,
             z \in ZCols, cl \in ChannelLabels : Import("A", raw, ft, dim, z, cl)
    \/ \E hs \in JoinSizes : Render("A", hs)
    \/ \E M \in Masks : MaskJoin("A", M)

SpecJoin == Init /\ [][NextJoin]_vars

(***************************************************************************)
(* SpecRender: object A imported from any generated table or raw file and   *)
(* rendered, repeatedly, with every bin count up to MaxBins.                *)
(***************************************************************************)
NextRender ==
    \/ /\ items["A"] = NoItem
       /\ \E raw \in GeneratedRaws \cup RawFiles :
             Import("A", raw, raw.ext, 2, None, TwoLabels)
    \/ \E hs \in HistoSizes : Render("A", hs)

SpecRender == Init /\ [][NextRender]_vars

(***************************************************************************)
(* SpecAlias: objects A and B, each made by file_to_datastruc or by         *)
(* load_from_parquet of a file saved once, and rendered in any order.       *)
(***************************************************************************)
AliasRaws == {RawCells, RawSpots}

AliasSizes == {<<1, 1>>, <<2, 2>>}

NextAlias ==
    \/ \E i \in Items, raw \in AliasRaws : Import(i, raw, raw.ext, 2, None, TwoLabels)
    \/ \E i \in Items, hs \in AliasSizes : Render(i, hs)
    \/ \E i \in Items, p \in Paths : Save(i, p, FALSE, FALSE, None, FALSE)
    \/ \E i \in Items, p \in Paths : items[i] = NoItem /\ Load(i, p)

SpecAlias == Init /\ [][NextAlias]_vars

(***************************************************************************)
(* SpecShape: object A imported as 2D or 3D from the raw files and the 3D   *)
(* file, and rendered with every tuple of two bin counts from -1 to MaxBins *)
(* and every tuple of three bin counts from 1 to MaxBins.                   *)
(***************************************************************************)
ShapeRaws == RawFiles \cup {RawVolume}

ShapeSizes ==
    ((-1 .. MaxBins) \X (-1 .. MaxBins))
      \cup ((1 .. MaxBins) \X (1 .. MaxBins) \X (1 .. MaxBins))

NextShape ==
    \/ /\ items["A"] = NoItem
       /\ \E raw \in ShapeRaws, dim \in {2, 3} :
             Import("A", raw, raw.ext, dim,
                    IF dim = 3 THEN Some("z_nm") ELSE None, TwoLabels)
    \/ \E hs \in ShapeSizes : Render("A", hs)

SpecShape == Init /\ [][NextShape]_vars

(***************************************************************************)
(* SpecWrite: object A imported, rendered and joined with a mask, then      *)
(* written to parquet and to csv with every combination of the options.     *)
(***************************************************************************)
Unwritten == \A p \in AllPaths : ~ files[p].exists

WriteRaws == {RawCells, RawGap}

WriteMasks == {MaskIndex(2, 2), MaskZero(2, 2)}

NextWrite ==
    \/ /\ items["A"] = NoItem
       /\ \E raw \in WriteRaws : Import("A", raw, raw.ext, 2, None, TwoLabels)
    \/ Unwritten /\ Render("A", <<2, 2>>)
    \/ \E M \in WriteMasks : Unwritten /\ MaskJoin("A", M)
    \/ \E p \in Paths, dz \in BOOLEAN, dp \in BOOLEAN :
          Save("A", p, dz, dp, None, TRUE)
    \/ \E p \in CsvPaths, dz \in BOOLEAN, dp \in BOOLEAN, scl \in BOOLEAN :
          SaveCsv("A", p, dz, dp, scl)

SpecWrite == Init /\ [][NextWrite]_vars

(***************************************************************************)
(* SpecWidget: a session of the widget on raw files, which are loaded and   *)
(* rendered; the user adds and paints the Labels layer, and then the table  *)
(* is written to csv and to in.parquet.                                     *)
(***************************************************************************)
WidgetRaws == {RawCells, RawSpots}

WidgetSizes == {<<2, 2>>, <<2, 1>>, <<1, 1>>}

WidgetMasks ==
    {MaskIndex(hs[1], hs[2]) : hs \in WidgetSizes}
      \cup {MaskZero(hs[1], hs[2]) : hs \in WidgetSizes}

NextWidget ==
    \/ \E raw \in WidgetRaws : Unwritten /\ LoadRawData(raw)
    \/ \E hs \in WidgetSizes : Unwritten /\ RenderButton(hs)
    \/ \E M \in WidgetMasks : Unwritten /\ AddLabels(M)
    \/ \E p \in CsvPaths, dz \in BOOLEAN : WriteCsv(p, dz)
    \/ \E p \in AnnotPaths, dz \in BOOLEAN : WriteParquet(p, dz)

SpecWidget == Init /\ [][NextWidget]_vars

(***************************************************************************)
(* SpecAnnot: a session of the widget in two parts.  Until in.parquet is    *)
(* written, the raw file is loaded and rendered and the user adds and       *)
(* paints the Labels layer; after that in.parquet is loaded and rendered,   *)
(* until out.parquet is written.                                            *)
(***************************************************************************)
Annotating == \A p \in AnnotPaths : ~ files[p].exists

NextAnnot ==
    \/ Annotating /\ LoadRawData(RawCells)
    \/ \E hs \in WidgetSizes : Annotating /\ RenderButton(hs)
    \/ \E M \in WidgetMasks : Annotating /\ AddLabels(M)
    \/ \E p \in AnnotPaths, dz \in BOOLEAN : Annotating /\ WriteParquet(p, dz)
    \/ \E p \in AnnotPaths : Unsaved /\ LoadAnnotData(p)
    \/ \E hs \in WidgetSizes : Unsaved /\ RenderButtonAnnot(hs)
    \/ \E p \in Paths, dz \in BOOLEAN : ~ Annotating /\ WriteParquet(p, dz)

SpecAnnot == Init /\ [][NextAnnot]_vars

(***************************************************************************)
(* SpecMenus: a session of the widget that loads raw files with different   *)
(* column names and the annotated file in any order, and renders the raw    *)
(* file; in.parquet is written once.                                        *)
(***************************************************************************)
MenuRaws == {RawCells, RawPlain}

MenuSizes == {<<2, 2>>, <<2, 1>>, <<1, 1>>}

NextMenus ==
    \/ \E raw \in MenuRaws : LoadRawData(raw)
    \/ \E hs \in MenuSizes : RenderButton(hs)
    \/ \E p \in AnnotPaths : Annotating /\ WriteParquet(p, FALSE)
    \/ \E p \in AnnotPaths : LoadAnnotData(p)

SpecMenus == Init /\ [][NextMenus]_vars

(***************************************************************************)
(* SpecReload: object A imported, rendered and joined with a mask, then     *)
(* saved with and without drop_zero_label; object B is loaded from the      *)
(* saved file and rendered.                                                 *)
(***************************************************************************)
ReloadRaws == {RawCells, RawGap}

ReloadMasks == {MaskIndex(2, 2), MaskZero(2, 2), MaskCorner(2, 2)}

ReloadSizes == {<<1, 1>>, <<1, 2>>, <<2, 2>>}

NextReload ==
    \/ /\ items["A"] = NoItem
       /\ \E raw \in ReloadRaws : Import("A", raw, raw.ext, 2, None, TwoLabels)
    \/ Unsaved /\ Render("A", <<2, 2>>)
    \/ \E M \in ReloadMasks : Unsaved /\ MaskJoin("A", M)
    \/ \E p \in Paths, dz \in BOOLEAN, dp \in BOOLEAN :
          Unsaved /\ Save("A", p, dz, dp, None, FALSE)
    \/ \E p \in Paths : Load("B", p)
    \/ \E hs \in ReloadSizes : Render("B", hs)

SpecReload == Init /\ [][NextReload]_vars

(***************************************************************************)
(* SpecVolume: object A imported as 2D or as 3D, rendered and joined with   *)
(* a mask of its dimension, in any order.                                   *)
(***************************************************************************)
VolumeRaws == {RawCells, RawSpots, RawVolume}

VolumeSizes == {<<1, 1>>, <<1, 2>>, <<2, 2>>, <<2, 2, 2>>}

PlanarMasks == {MaskIndex(2, 2), MaskZero(2, 2), MaskIndex(1, 2), MaskIndex(1, 1)}

VolumeMasks == {MaskVolume(2, 2, 2)}

NextVolume ==
    \/ /\ items["A"] = NoItem
       /\ \E raw \in VolumeRaws, dim \in {2, 3} :
             Import("A", raw, raw.ext, dim,
                    IF dim = 3 THEN Some("z_nm") ELSE None, TwoLabels)
    \/ \E hs \in VolumeSizes : Render("A", hs)
    \/ /\ items["A"].exists /\ items["A"].dim = 2
       /\ \E M \in PlanarMasks : MaskJoin("A", M)
    \/ /\ items["A"].exists /\ items["A"].dim = 3
       /\ \E M \in VolumeMasks : MaskJoin("A", M)

SpecVolume == Init /\ [][NextVolume]_vars

(***************************************************************************)
(* SpecSeg: object A imported, rendered on square and on oblong grids,      *)
(* joined with masks of the shape of the grid it was last rendered on, and  *)
(* its segmentation rendered.                                               *)
(***************************************************************************)
SegRaws == {RawCells, RawSpots}

SegSizes == {<<1, 1>>, <<2, 2>>, <<2, 3>>, <<3, 2>>}

SegMasks ==
    {MaskIndex(hs[1], hs[2]) : hs \in SegSizes}
      \cup {MaskCorner(hs[1], hs[2]) : hs \in SegSizes}

NextSeg ==
    \/ /\ items["A"] = NoItem
       /\ \E raw \in SegRaws : Import("A", raw, raw.ext, 2, None, TwoLabels)
    \/ \E hs \in SegSizes : Render("A", hs)
    \/ /\ items["A"].exists /\ items["A"].histo_edges # None
       /\ \E M \in SegMasks :
             /\ MaskShape(M) = <<Len(TheVal(items["A"].histo_edges)[1]) - 1,
                                 Len(TheVal(items["A"].histo_edges)[2]) - 1>>
             /\ MaskJoin("A", M)
    \/ RenderSeg("A")

SpecSeg == Init /\ [][NextSeg]_vars

(***************************************************************************)
(* Properties.                                                              *)
(***************************************************************************)
\* object i was just loaded from the file at p, without error
LoadedFrom(i, p) ==
    last.op = "load" /\ last.item = i /\ last.path = p /\ last.err = "ok"

\* the file was written with drop_zero_label=False and drop_pixel_col=False
NoDrop(f) == ~ f.drop_zero_label /\ ~ f.drop_pixel_col

\* the bin counts of the grid an item was last rendered on
GridShape(it) ==
    <<Len(TheVal(it.histo_edges)[1]) - 1, Len(TheVal(it.histo_edges)[2]) - 1>>

\* the sum of all counts of a 2D array
SumArray(arr) ==
    SumSeq([a \in 1 .. Cardinality(DOMAIN arr) |->
              SumSeq([b \in 1 .. Cardinality(DOMAIN arr[a - 1]) |-> arr[a - 1][b - 1]])])

\* the rows of a frame without their gt_label
RowsWithoutLabel(df) ==
    IF HasCol(df, "gt_label") THEN DropCol(df, "gt_label").rows ELSE df.rows

\* the call that produced this state was coord_2_histo on object i, and it
\* got as far as assigning the edges and the histograms
Binned(i) ==
    last.op = "render" /\ last.item = i /\ last.err \in {"ok", "ComputeError"}

\* ... and it completed
Rendered(i) == last.op = "render" /\ last.item = i /\ last.err = "ok"

\* C1: an object loaded from a file that was saved with no drop options has
\* the name, dim, channels, channel_label, bin_sizes and gt_label_map of the
\* object that was saved.
C1_MetadataRoundTrip ==
    \A i \in Items, p \in Paths :
       LoadedFrom(i, p) /\ NoDrop(files[p]) =>
          /\ items[i].name = files[p].saved.name
          /\ items[i].dim = files[p].saved.dim
          /\ items[i].channels = files[p].saved.channels
          /\ items[i].channel_label = files[p].saved.channel_label
          /\ items[i].bin_sizes = files[p].saved.bin_sizes
          /\ items[i].gt_label_map = files[p].saved.gt_label_map

\* C2: an object loaded from a file that was saved with no drop options has
\* the columns of the saved object's table and the same multiset of rows.
C2_TableRoundTrip ==
    \A i \in Items, p \in Paths :
       LoadedFrom(i, p) /\ NoDrop(files[p]) =>
          /\ items[i].df.cols = files[p].saved.df.cols
          /\ BagOfSeq(items[i].df.rows) = BagOfSeq(files[p].saved.df.rows)

C2_Witness ==
    \E i \in Items, p \in Paths :
       /\ LoadedFrom(i, p) /\ NoDrop(files[p])
       /\ HasCol(files[p].saved.df, "x_pixel")
       /\ HasCol(files[p].saved.df, "gt_label")
       /\ Len(items[i].df.rows) > 1

\* C3: a save with overwrite=False to a path that exists raises an error and
\* leaves every file as it was.
C3_NoOverwrite ==
    [][(last'.op = "save" /\ last'.existed /\ ~ last'.overwrite)
          => (last'.err # "ok" /\ files' = files)]_vars

C3_Witness ==
    /\ last.op = "save" /\ last.existed /\ ~ last.overwrite
    /\ last.err = "ValueError"

\* object i was just joined, without error, with a mask of the shape of the
\* grid it was rendered on
JoinedOnGrid(i) ==
    /\ last.op = "join" /\ last.item = i /\ last.err = "ok"
    /\ items[i].dim = 2
    /\ items[i].histo_edges # None
    /\ MaskShape(items[i].histo_mask) = GridShape(items[i])

\* C4: after the mask join with a mask M of the grid's shape every retained
\* localisation has gt_label = M[x_pixel, y_pixel].
C4_JoinLabel ==
    \A i \in Items :
       JoinedOnGrid(i) =>
          \A r \in Range(items[i].df.rows) :
             r.gt_label = items[i].histo_mask[r.x_pixel][r.y_pixel]

\* C5: the mask join keeps, once each, exactly the localisations whose pixel
\* lies inside the mask, so a mask of the grid's shape keeps the row count.
C5_JoinKeepsRows ==
    [][\A i \in Items :
          (last'.op = "join" /\ last'.item = i /\ last'.err = "ok"
             /\ items'[i].dim = 2) =>
             LET M      == items'[i].histo_mask
                 before == RowsWithoutLabel(items[i].df)
                 after  == RowsWithoutLabel(items'[i].df)
                 inside(r) == r.x_pixel \in DOMAIN M /\ r.y_pixel \in DOMAIN M[0]
             IN  /\ BagOfSeq(after) = BagOfSeq(SelectSeq(before, inside))
                 /\ (items[i].histo_edges # None
                       /\ MaskShape(M) = GridShape(items[i]))
                      => Len(after) = Len(before)]_vars

\* C6: after a render the counts of histo[c] sum to the number of rows of
\* channel c, for every channel c of the object.
C6_HistoSum ==
    \A i \in Items :
       Binned(i) =>
          \A c \in Range(items[i].channels) :
             SumArray(HistoOf(i)[c])
               = Cardinality({n \in DOMAIN items[i].df.rows :
                                 items[i].df.rows[n].channel = c})

C6_Witness ==
    \E i \in Items :
       /\ Rendered(i)
       /\ Len(items[i].channels) = 2
       /\ Len(items[i].df.rows) = 3
       /\ last.histo_size = <<2, 2>>
       /\ \E c \in Range(items[i].channels) : HistoOf(i)[c][1][1] > 0

\* C7: after a render every row that does not hold the maximum of an axis has
\* on that axis the pixel digitize(coordinate, edges of the axis) - 1.
C7_PixelIsDigitize ==
    \A i \in Items :
       Rendered(i) =>
          \A r \in Range(items[i].df.rows) :
             /\ r.x # ColMax(items[i].df, "x") =>
                  r.x_pixel = Digitize(r.x, TheVal(items[i].histo_edges)[1]) - 1
             /\ r.y # ColMax(items[i].df, "y") =>
                  r.y_pixel = Digitize(r.y, TheVal(items[i].histo_edges)[2]) - 1

C7_Witness ==
    \E i \in Items :
       /\ Rendered(i)
       /\ \E r \in Range(items[i].df.rows) :
             /\ r.x # ColMax(items[i].df, "x") /\ r.x # ColMin(items[i].df, "x")
             /\ r.x_pixel = 1

\* the edges of one axis after a render with n bins of coordinates mn .. mx
EdgesAsSpecified(edges, n, mn, mx) ==
    /\ Len(edges) = n + 1
    /\ \A k \in 1 .. Len(edges) - 1 : RatLess(edges[k], edges[k + 1])
    /\ edges[1] = RatOfInt(mn)
    /\ RatLess(RatOfInt(mx), edges[Len(edges)])

\* C8: after a render of a non-empty table with positive bin counts the edges
\* of every axis are bin count + 1 strictly increasing values from the axis
\* minimum to a value above the axis maximum.
C8_Edges ==
    \A i \in Items :
       Binned(i) =>
          /\ EdgesAsSpecified(TheVal(items[i].histo_edges)[1], last.histo_size[1],
                              ColMin(items[i].df, "x"), ColMax(items[i].df, "x"))
          /\ EdgesAsSpecified(TheVal(items[i].histo_edges)[2], last.histo_size[2],
                              ColMin(items[i].df, "y"), ColMax(items[i].df, "y"))

\* the table of the scenario: (chan, x, y) = (0, 0, 0), (0, 10, 10), (1, 5, 5)
ScenarioRows(df) ==
    [n \in DOMAIN df.rows |-> <<df.rows[n].channel, df.rows[n].x, df.rows[n].y>>]
      = << <<0, 0, 0>>, <<0, 10, 10>>, <<1, 5, 5>> >>

\* C9: the scenario table rendered with bin counts (2, 2) has x edges
\* 0, 5.005, 10.01, histo[0] with one count at (0, 0) and one at (1, 1), and
\* histo[1] with one count at (0, 0).
C9_Scenario ==
    \A i \in Items :
       (Rendered(i) /\ ScenarioRows(items[i].df) /\ last.histo_size = <<2, 2>>) =>
          /\ TheVal(items[i].histo_edges)[1]
               = <<Rat(0, 1), Rat(5005, 1000), Rat(1001, 100)>>
          /\ HistoOf(i)[0] = [a \in 0 .. 1 |-> [b \in 0 .. 1 |->
                                 IF a = b THEN 1 ELSE 0]]
          /\ HistoOf(i)[1] = [a \in 0 .. 1 |-> [b \in 0 .. 1 |->
                                 IF a = 0 /\ b = 0 THEN 1 ELSE 0]]

C9_Witness ==
    \E i \in Items :
       Rendered(i) /\ ScenarioRows(items[i].df) /\ last.histo_size = <<2, 2>>

\* C10: rendering one object leaves the histogram of every other object as
\* it was.
C10_OwnHisto ==
    [][\A a, b \in Items :
          (a # b /\ items[a].exists /\ items[b].exists
             /\ last'.op = "render" /\ last'.item = a)
            => heap'[items'[b].histo] = heap[items[b].histo]]_vars

\* the shape of a 2D array of counts
ArrayShape(arr) ==
    <<Cardinality(DOMAIN arr),
      IF DOMAIN arr = {} THEN 0 ELSE Cardinality(DOMAIN arr[0])>>

\* C11: the histo of a rendered object has exactly the object's channels as
\* keys, and every entry has the shape of the grid the object was last
\* rendered on.
C11_HistoKeys ==
    \A i \in Items :
       (items[i].exists /\ items[i].histo_edges # None) =>
          /\ DOMAIN HistoOf(i) = Range(items[i].channels)
          /\ \A c \in DOMAIN HistoOf(i) :
                ArrayShape(HistoOf(i)[c]) = GridShape(items[i])

\* the last call was file_to_datastruc with a dim and z_col that disagree
BadDimImport(l) ==
    /\ l.op = "import"
    /\ \/ l.dim = 3 /\ l.z_col = None
       \/ l.dim = 2 /\ l.z_col # None
       \/ l.dim \notin {2, 3}

\* C12: an import with dim 3 and no z_col, dim 2 and a z_col, or a dim that is
\* neither 2 nor 3 raises ValueError and makes no object, whatever the file
\* and the file type are.
C12_DimCheck ==
    [][BadDimImport(last') => (last'.err = "ValueError" /\ items' = items)]_vars

C12_Witness ==
    /\ BadDimImport(last) /\ last.dim = 2
    /\ last.err = "ValueError"
    /\ last.file_type = "csv" /\ last.input = "cells"
    /\ last.channel_label = TwoLabels

\* the raw file called base
RawNamed(base) == CHOOSE r \in RawFiles \cup {RawVolume} : r.base = base

\* the number of distinct channel values of a raw file
ChannelCount(raw) == Cardinality({r.chan : r \in Range(raw.rows)})

\* the last call was file_to_datastruc with a dim and z_col that agree, the
\* file type of the file, and a file that has the columns asked for
ValidImport(l) ==
    /\ l.op = "import" /\ ~ BadDimImport(l)
    /\ l.file_type = RawNamed(l.input).ext
    /\ l.dim = 3 => TheVal(l.z_col) \in Range(RawNamed(l.input).cols)

\* C13: every object has at least as many channel labels as channels, and an
\* import whose arguments are otherwise valid and whose channel_label has
\* fewer entries than the file has channel values raises ValueError and makes
\* no object.
C13_LabelCount ==
    /\ \A i \in Items :
          items[i].exists =>
             /\ items[i].channel_label # None
             /\ Len(TheVal(items[i].channel_label)) >= Len(items[i].channels)
    /\ (/\ ValidImport(last)
        /\ last.channel_label # None
        /\ Len(TheVal(last.channel_label)) < ChannelCount(RawNamed(last.input)))
         => (last.err = "ValueError" /\ items[last.item] = NoItem)

C13_Witness ==
    /\ last.op = "import" /\ last.dim = 2 /\ last.z_col = None
    /\ last.file_type = "csv" /\ last.input = "cells"
    /\ last.channel_label = Some(<<"egfr">>)
    /\ last.err = "ValueError"

\* C14: an import of a file with a valid dim, columns and file type and no
\* channel_label returns an object without an error.
C14_LabelsOptional ==
    (ValidImport(last) /\ last.channel_label = None)
      => (last.err = "ok" /\ items[last.item].exists)

\* C15: a render of a non-empty 2D object with a bin count that is zero or
\* negative raises an error and leaves the object and its histograms as they
\* were.
C15_BinCountChecked ==
    [][\A i \in Items :
          (/\ last'.op = "render" /\ last'.item = i
           /\ items[i].exists /\ items[i].dim = 2
           /\ Len(last'.histo_size) = 2
           /\ last'.histo_size[1] <= 0 \/ last'.histo_size[2] <= 0)
            => (last'.err # "ok" /\ items'[i] = items[i] /\ heap' = heap)]_vars

\* C16: a render of a 3D object with three positive bin counts completes and
\* sets bin_sizes and histo_edges to 3-tuples, stores a histogram for every
\* channel and adds the columns x_pixel, y_pixel and z_pixel.
C16_Render3D ==
    \A i \in Items :
       (/\ last.op = "render" /\ last.item = i
        /\ items[i].exists /\ items[i].dim = 3
        /\ Len(last.histo_size) = 3
        /\ \A k \in 1 .. 3 : last.histo_size[k] > 0)
         => /\ last.err = "ok"
            /\ items[i].bin_sizes # None /\ Len(TheVal(items[i].bin_sizes)) = 3
            /\ items[i].histo_edges # None /\ Len(TheVal(items[i].histo_edges)) = 3
            /\ Range(items[i].channels) \subseteq DOMAIN HistoOf(i)
            /\ \A c \in {"x_pixel", "y_pixel", "z_pixel"} : HasCol(items[i].df, c)

\* channel, coordinates and label of the rows of a table, whatever other
\* columns it has
CoreRows(rows) ==
    [n \in DOMAIN rows |->
       <<rows[n].channel, rows[n].x, rows[n].y,
         IF "gt_label" \in DOMAIN rows[n] THEN <<rows[n].gt_label>> ELSE <<>> >>]

\* C17: a file written by save_to_parquet or save_df_to_csv holds, once each,
\* the rows of the table whose gt_label is not 0 when drop_zero_label is set,
\* and every row of the table when it is not.
C17_DropZero ==
    \A p \in Paths \cup CsvPaths :
       files[p].exists =>
          LET f    == files[p]
              rows == f.saved.df.rows
              want == IF f.drop_zero_label
                        THEN SelectSeq(rows, LAMBDA r : r.gt_label # 0)
                        ELSE rows
          IN  BagOfSeq(CoreRows(f.table.rows)) = BagOfSeq(CoreRows(want))

\* C18: a write of the rendered table by the widget while no layer is named
\* Labels completes, to csv and to a new parquet path and whatever the
\* drop-zero box says, and neither the table nor the file gains a gt_label
\* column.
C18_WriteWithoutLabels ==
    [][(/\ last'.op \in {"write_parquet", "write_csv"}
        /\ widget.labels = None
        /\ items[WidgetItem].exists
        /\ HasCol(items[WidgetItem].df, "x_pixel")
        /\ HasCol(items[WidgetItem].df, "y_pixel")
        /\ ~ (last'.op = "write_parquet" /\ last'.existed))
         => /\ last'.err = "ok"
            /\ files'[last'.path].exists
            /\ HasCol(items'[WidgetItem].df, "gt_label")
                  <=> HasCol(items[WidgetItem].df, "gt_label")
            /\ HasCol(files'[last'.path].table, "gt_label")
                  <=> HasCol(items[WidgetItem].df, "gt_label")]_vars

\* C19: an object loaded from a file has the gt_label_map that was given to
\* the save, with its integer keys and its names.
C19_LabelMapKeys ==
    \A i \in Items, p \in Paths :
       (LoadedFrom(i, p) /\ files[p].gt_label_map # None) =>
          items[i].gt_label_map = files[p].gt_label_map

C19_Witness ==
    \E i \in Items, p \in Paths :
       /\ LoadedFrom(i, p)
       /\ files[p].gt_label_map = Some((0 :> "background") @@ (1 :> "cell"))
       /\ DOMAIN TheVal(items[i].gt_label_map) = {0, 1}

\* C20: a file written by the widget, with the drop-zero box unchecked, from
\* a table it loaded from an annotated file and rendered has the columns and
\* the multiset of rows of that annotated file.
C20_AnnotRoundTrip ==
    \A p \in Paths :
       (files[p].exists /\ files[p].origin # None /\ ~ files[p].drop_zero_label) =>
          LET in == files[TheVal(files[p].origin)].table
              out == files[p].table
          IN  /\ out.cols = in.cols
              /\ out.f64 = in.f64
              /\ BagOfSeq(out.rows) = BagOfSeq(in.rows)

\* the pixel columns of an object of dimension dim
PixelColsOf(dim) ==
    IF dim = 3 THEN {"x_pixel", "y_pixel", "z_pixel"} ELSE {"x_pixel", "y_pixel"}

\* a frame without its pixel columns
WithoutPixels(df) == DropPresent(df, PixelCols)

\* C21: after a render with as many positive bin counts as the object has
\* dimensions, the table has each pixel column of its dimension exactly once,
\* its other columns and its rows without the pixel columns are as before,
\* and a render with the bin counts of the render before it leaves the table
\* as it was.
C21_PixelColsReplaced ==
    [][\A i \in Items :
          (/\ last'.op = "render" /\ last'.item = i
           /\ items[i].exists
           /\ Len(last'.histo_size) = items[i].dim
           /\ \A k \in DOMAIN last'.histo_size : last'.histo_size[k] > 0)
            => /\ \A c \in PixelColsOf(items[i].dim) :
                     Cardinality({k \in DOMAIN items'[i].df.cols :
                                     items'[i].df.cols[k] = c}) = 1
               /\ WithoutPixels(items'[i].df).cols = WithoutPixels(items[i].df).cols
               /\ WithoutPixels(items'[i].df).rows = WithoutPixels(items[i].df).rows
               /\ (last.op = "render" /\ last.item = i
                     /\ last.histo_size = last'.histo_size)
                    => items'[i].df = items[i].df]_vars

\* the same for the objects of dimension 2 only
PlanarPixelColsReplaced ==
    [][\A i \in Items :
          (/\ last'.op = "render" /\ last'.item = i
           /\ items[i].exists /\ items[i].dim = 2
           /\ Len(last'.histo_size) = 2
           /\ \A k \in DOMAIN last'.histo_size : last'.histo_size[k] > 0)
            => /\ \A c \in PixelColsOf(2) :
                     Cardinality({k \in DOMAIN items'[i].df.cols :
                                     items'[i].df.cols[k] = c}) = 1
               /\ WithoutPixels(items'[i].df).cols = WithoutPixels(items[i].df).cols
               /\ WithoutPixels(items'[i].df).rows = WithoutPixels(items[i].df).rows
               /\ (last.op = "render" /\ last.item = i
                     /\ last.histo_size = last'.histo_size)
                    => items'[i].df = items[i].df]_vars

\* the channels of an object that no row of its table has
EmptyChannels(it) ==
    {c \in Range(it.channels) : \A r \in Range(it.df.rows) : r.channel # c}

\* the all-zero array of shape (n0, n1)
Zeros(n0, n1) == [a \in 0 .. n0 - 1 |-> [b \in 0 .. n1 - 1 |-> 0]]

\* C22: a render, with positive bin counts, of a 2D object that has a channel
\* without rows completes, and the histogram of every such channel is all
\* zero and has the shape of the bin counts.
C22_EmptyChannel ==
    \A i \in Items :
       (/\ last.op = "render" /\ last.item = i
        /\ items[i].exists /\ items[i].dim = 2
        /\ Len(last.histo_size) = 2
        /\ last.histo_size[1] > 0 /\ last.histo_size[2] > 0
        /\ EmptyChannels(items[i]) # {})
         => /\ last.err = "ok"
            /\ \A c \in EmptyChannels(items[i]) :
                  /\ c \in DOMAIN HistoOf(i)
                  /\ HistoOf(i)[c] = Zeros(last.histo_size[1], last.histo_size[2])

\* a render of an object with a channel without rows that completed
EmptyChannelRendered ==
    \E i \in Items :
       /\ Rendered(i) /\ EmptyChannels(items[i]) # {}
       /\ \A c \in EmptyChannels(items[i]) :
             HistoOf(i)[c] = Zeros(last.histo_size[1], last.histo_size[2])

\* C23: the mask join of a 3D object completes and leaves the table, with
\* any gt_label it had, every attribute other than the histo_mask that was
\* set for the join, and the histograms as they were.
C23_Join3DNoOp ==
    [][\A i \in Items :
          (/\ last'.op = "join" /\ last'.item = i
           /\ items[i].exists /\ items[i].dim = 3)
            => /\ last'.err = "ok"
               /\ items'[i] = [items[i] EXCEPT !.histo_mask = items'[i].histo_mask]
               /\ HasCol(items'[i].df, "gt_label") <=> HasCol(items[i].df, "gt_label")
               /\ heap' = heap]_vars

C23_Witness ==
    \E i \in Items :
       /\ last.op = "join" /\ last.item = i /\ last.err = "ok"
       /\ items[i].exists /\ items[i].dim = 3
       /\ items[i].histo_mask = MaskVolume(2, 2, 2)
       /\ Len(items[i].df.rows) = 3
       /\ ~ HasCol(items[i].df, "gt_label")

\* the coordinates of the table differ on both axes
SpansBothAxes(df) ==
    ColMax(df, "x") # ColMin(df, "x") /\ ColMax(df, "y") # ColMin(df, "y")

Occupied(df, a, b) ==
    \E r \in Range(df.rows) : r.x_pixel = a /\ r.y_pixel = b

\* the array R is the mask M on the pixels of the grid that hold a row of df
\* and 0 on the others
RecoversMask(R, M, df, shape) ==
    /\ ArrayShape(R) = shape
    /\ \A a \in 0 .. shape[1] - 1, b \in 0 .. shape[2] - 1 :
          R[a][b] = IF Occupied(df, a, b) THEN M[a][b] ELSE 0

\* C25: render_seg right after the join of a rendered 2D object with a mask M
\* of the grid's shape returns an array that holds M[x, y] on every pixel
\* with a localisation and 0 on every other pixel of the grid.
C25_SegRecoversMask ==
    [][\A i \in Items :
          (JoinedOnGrid(i) /\ last'.op = "render_seg" /\ last'.item = i)
            => /\ last'.err = "ok"
               /\ RecoversMask(TheVal(last'.seg), items[i].histo_mask,
                               items[i].df, GridShape(items[i]))]_vars

\* the same for the masks with as many rows as columns
SquareSegRecoversMask ==
    [][\A i \in Items :
          (/\ JoinedOnGrid(i) /\ last'.op = "render_seg" /\ last'.item = i
           /\ GridShape(items[i])[1] = GridShape(items[i])[2])
            => /\ last'.err = "ok"
               /\ RecoversMask(TheVal(last'.seg), items[i].histo_mask,
                               items[i].df, GridShape(items[i]))]_vars

\* C26: a csv file written with drop_zero_label=False and save_chan_label=True
\* has one row for every row of the table, none dropped and none repeated,
\* and each row's chan_label is the channel_label entry of its channel.
C26_ChanLabelRows ==
    \A p \in CsvPaths :
       (files[p].exists /\ files[p].save_chan_label /\ ~ files[p].drop_zero_label) =>
          LET f == files[p]
          IN  /\ Len(f.table.rows) = Len(f.saved.df.rows)
              /\ BagOfSeq(CoreRows(f.table.rows)) = BagOfSeq(CoreRows(f.saved.df.rows))
              /\ \A r \in Range(f.table.rows) :
                    /\ r.channel + 1 \in DOMAIN TheVal(f.saved.channel_label)
                    /\ r.chan_label = TheVal(f.saved.channel_label)[r.channel + 1]

\* a csv file written with the channel labels that holds every row of a
\* table of two channels
ChanLabelsWritten ==
    \E p \in CsvPaths :
       /\ files[p].exists /\ files[p].save_chan_label /\ ~ files[p].drop_zero_label
       /\ Len(files[p].table.rows) = 3
       /\ {r.chan_label : r \in Range(files[p].table.rows)} = {"egfr", "ereg"}

\* the errors coord_2_histo raises
HistoErrors ==
    {"ValueError", "UnboundLocalError", "TypeError", "ZeroDivisionError",
     "ComputeError"}

\* the last call was a click on a Render button of the widget, with positive
\* bin counts, whose coord_2_histo completed on a 2D object
WidgetRendered ==
    /\ last.op \in {"render_button", "render_annot"}
    /\ items[WidgetItem].exists /\ items[WidgetItem].dim = 2
    /\ last.histo_size[1] > 0 /\ last.histo_size[2] > 0
    /\ last.err \notin HistoErrors

\* C27: after the widget rendered a 2D object the viewer holds one image per
\* channel of the object, in their order and named with the channel's label,
\* and a layer Labels exactly when the render was one of an annotated file
\* with a label map.
C27_ImageLayers ==
    WidgetRendered =>
       LET it == items[WidgetItem]
       IN  /\ Len(widget.images) = Len(it.channels)
           /\ \A k \in DOMAIN widget.images :
                 /\ widget.images[k].chan = it.channels[k]
                 /\ it.channels[k] + 1 \in DOMAIN TheVal(it.channel_label)
                 /\ widget.images[k].label
                      = TheVal(it.channel_label)[it.channels[k] + 1]
           /\ (widget.labels # None)
                 <=> (last.op = "render_annot" /\ Truthy(it.gt_label_map))

\* the same for the objects with more than one channel
SeveralImageLayers ==
    (WidgetRendered /\ Len(items[WidgetItem].channels) > 1) =>
       LET it == items[WidgetItem]
       IN  /\ Len(widget.images) = Len(it.channels)
           /\ \A k \in DOMAIN widget.images :
                 /\ widget.images[k].chan = it.channels[k]
                 /\ widget.images[k].label
                      = TheVal(it.channel_label)[it.channels[k] + 1]
           /\ (widget.labels # None)
                 <=> (last.op = "render_annot" /\ Truthy(it.gt_label_map))

\* the columns of the file the last load read
LoadedColumns ==
    IF last.op = "load_raw" THEN Head(widget.bound).cols
    ELSE files[last.path].table.cols

\* a load handler has filled the menus
MenusLoaded == last.op \in {"load_raw", "load_annot"} /\ last.err = "ok"

\* C28: after any sequence of _load_raw_data and _load_annot_data calls the
\* channel, x and y menus list exactly the columns of the most recently loaded
\* file, the frame menu "None" and these columns, and the entry selected in
\* each menu is a column of that file (the frame menu: or "None")
C28_MenusOfLastLoad ==
    MenusLoaded =>
      /\ \A m \in {"channel", "x", "y"} :
            /\ widget.menus[m].items = LoadedColumns
            /\ CurrentText(widget.menus[m]) \in Range(LoadedColumns)
      /\ widget.menus.frame.items = <<"None">> \o LoadedColumns
      /\ CurrentText(widget.menus.frame) \in {"None"} \cup Range(LoadedColumns)

\* after the first load of a session the menus list the columns of its file
\* and the selected entries are columns of it
FirstLoadMenus ==
    (MenusLoaded /\ Len(widget.menus.frame.items) = 1 + Len(LoadedColumns)) =>
      /\ \A m \in {"channel", "x", "y"} :
            /\ widget.menus[m].items = LoadedColumns
            /\ CurrentText(widget.menus[m]) \in Range(LoadedColumns)
      /\ CurrentText(widget.menus.frame) = "None"

\* C29: after any sequence of raw loads a click on the Render button runs
\* _render_button exactly once, with the path and the file type of the most
\* recent _load_raw_data
C29_OneRenderOfLastLoad ==
    [][last'.op = "render_button" =>
         /\ last'.renders = 1
         /\ widget.raw_loaded # None
         /\ last'.input = TheVal(widget.raw_loaded).base
         /\ last'.file_type = TheVal(widget.raw_loaded).ext]_vars

\* the Render button clicked after plain.parquet was loaded over cells.csv
C29_Witness ==
    /\ last.op = "render_button" /\ last.input = "plain" /\ last.renders = 1
    /\ Len(widget.menus.channel.items) > Len(RawPlain.cols)
    /\ widget.menus.channel.items[1] = "chan"

====
